---- MODULE Spec2Model ----
(***************************************************************************)
(* Polling, deduplication and failure-recovery engine of the marketplace   *)
(* monitoring bot: the seen-item ledger (database.py), the two marketplace *)
(* clients (vinted_client.py, lbc_client.py) and the scheduled cycle with  *)
(* its error handler (bot.py).                                             *)
(*                                                                         *)
(* The bot runs on one asyncio event loop.  Code between two awaits is one *)
(* atomic step; the shell's command handlers run only while the scheduled  *)
(* cycle is idle or suspended at an await (send_message, sleep).           *)
(***************************************************************************)
EXTENDS Integers, Sequences, FiniteSets, Bags, TLC

(* ------------------------------- bounds -------------------------------- *)
\* total number of marketplace fetches (search_items calls) in a run
MaxFetches == 3
\* number of shell commands handled in a run
MaxCmds == 1
\* longest list of items one fetch returns
MaxLen == 2
\* most labels in the host of a sample url
MaxLabels == 3

(* ------------------------------ universe ------------------------------- *)
Chats == {1, 2}
\* order in which get_all_chats yields the chats (rows grouped by chat_id)
ChatOrder == <<1, 2>>
\* v1, v2: Vinted searches; l1: a LeBonCoin search; x1: a url of another site
Urls == {"v1", "v2", "l1", "x1"}
\* raw marketplace item ids (item.id)
RawIds == {1, 2}
Clients == {"vinted", "leboncoin"}
\* sizes of the proxy list load_proxies may return (0: file absent)
ProxyCounts == {0, 2}

\* host part (urlparse(url).netloc) of each url, as its dot-separated labels
Netloc(url) ==
    CASE url = "v1" -> <<"www", "vinted", "fr">>
      [] url = "v2" -> <<"WWW", "VINTED", "FR">>
      [] url = "l1" -> <<"www", "leboncoin", "fr">>
      [] url = "x1" -> <<"www", "example", "com">>
      [] OTHER -> <<>>

\* str.lower() on a label
Lower(label) ==
    CASE label = "WWW" -> "www"
      [] label = "VINTED" -> "vinted"
      [] label = "LEBONCOIN" -> "leboncoin"
      [] label = "FR" -> "fr"
      [] OTHER -> label

\* 'word' in host.lower(), for a host given as its labels
HostHas(host, word) == \E i \in DOMAIN host : Lower(host[i]) = word

\* VintedClient.validate_url after urlparse: 'vinted' in parsed.netloc.lower()
VintedValidateHost(host) == HostHas(host, "vinted")

\* LeBonCoinClient.validate_url after urlparse
LbcValidateHost(host) == HostHas(host, "leboncoin")

\* VintedClient.validate_url
VintedValidateUrl(url) == VintedValidateHost(Netloc(url))

\* LeBonCoinClient.validate_url
LbcValidateUrl(url) == LbcValidateHost(Netloc(url))

\* labels the hosts of sample urls are made of
HostLabels == {"www", "vinted", "leboncoin", "VINTED", "com"}

\* hosts of the urls a user may send: up to MaxLabels labels
Hosts == UNION {[1..n -> HostLabels] : n \in 1..MaxLabels}

\* a client selection that gives every other url to the LeBonCoin client
ClientForLbcDefault(url) == IF VintedValidateUrl(url) THEN "vinted" ELSE "leboncoin"

\* client selection of the cycle and of search_command: first validator wins
ClientFor(url) ==
    IF VintedValidateUrl(url) THEN "vinted"
    ELSE IF LbcValidateUrl(url) THEN "leboncoin"
    ELSE "none"

\* str(item.id)
Str(id) == CASE id = 1 -> "1" [] id = 2 -> "2" [] OTHER -> "?"

\* now - item.created_at, in hours: item 1 was listed an hour ago, item 2
\* ten days ago
AgeHours(id) == CASE id = 1 -> 1 [] id = 2 -> 240 [] OTHER -> 0

\* timedelta(days=7), in hours
WindowHours == 168

\* what a fetch returns: a list of at most MaxLen items, repeats included
ItemLists == UNION {[1..n -> RawIds] : n \in 0..MaxLen}

\* outcome of vinted.items.search / lbc.search: a list of items or an exception
FetchOutcomes ==
    [kind : {"403", "401", "other"}, items : {<<>>}]
        \cup [kind : {"ok"}, items : ItemLists]

(* ------------------------------- state --------------------------------- *)
VARIABLES
    \* store (database.py)
    queries,        \* search_urls: chat -> urls in added_at order
    seen,           \* seen_items: bag of rows <<chat_id, url, item_id>>
    paused,         \* chats.paused
    \* recovery state (process wide)
    failed,         \* client -> failed_attempts
    numProxies,     \* len(self.proxies)
    proxyPos,       \* number of next(self.proxy_pool) calls, modulo the pool
    sessionProxy,   \* requester.session.proxies: 0 none, else index of proxy
    identity,       \* number of user agents generated so far
    \* scheduled cycle (check_new_items_job)
    cpc,            \* "idle", "run", "await_err", "await_item", "await_sleep"
    snap,           \* all_chats read at the start of the cycle
    todo,           \* chats the for loop has not reached yet
    cur,            \* chat_id of the iteration, 0 outside the loop body
    work,           \* search_urls list of the iteration (mutated by pop/append)
    curUrl,         \* url popped last
    items,          \* items returned by search_items for that url
    newItems,       \* new_items returned by get_new_items for that url
    idx,            \* position in new_items of the item being sent
    \* run budget
    nFetch, nCmd,
    \* history (not program state)
    hist,           \* <<chat, url>> -> fetch outcomes of the current cycle
    lastTry,        \* client -> its latest fetch: chat, url, outcome
    fetched,        \* rows <<chat, url, id>> get_new_items has fetched so far
    notified,       \* <<chat, url, id>> -> number of new-item sends invoked
    lastRemove,     \* the latest remove_search_url call and what it did
    gaveUp,         \* <<chat, url>> hit by two 403s in a row in this cycle
    lastSearch,     \* the latest search_command: its fetch and its replies
    probe,          \* the latest call of a function applied on its own
    lastAdd,        \* the latest add_search_url call and what it returned
    sinceOk,        \* client -> fetch attempts since its last successful fetch
    storeErr        \* store error met by the latest get_new_items, if any

store == <<queries, seen, paused>>
recovery == <<failed, numProxies, proxyPos, sessionProxy, identity>>
cycle == <<cpc, snap, todo, cur, work, curUrl, items, newItems, idx>>
budget == <<nFetch, nCmd>>
history == <<hist, lastTry, fetched, notified, lastRemove, gaveUp, lastSearch, probe,
             lastAdd, sinceOk, storeErr>>
vars == <<store, recovery, cycle, budget, history>>

Range(s) == {s[i] : i \in DOMAIN s}

(* ------------------------- store (database.py) ------------------------- *)
\* a get_seen_items whose SELECT has no chat_id condition
GetSeenItemsAllChats(s, chat, url) == {r[3] : r \in BagToSet(s)}

\* Database.get_seen_items: item ids of a chat, of one url when url is given
GetSeenItems(s, chat, url) ==
    IF url # ""
    THEN {r[3] : r \in {x \in BagToSet(s) : x[1] = chat /\ x[2] = url}}
    ELSE {r[3] : r \in {x \in BagToSet(s) : x[1] = chat}}

\* DBConfigManager.get_seen_items: passes no url
CfgGetSeenItems(s, chat) == GetSeenItems(s, chat, "")

\* a plain INSERT without the primary key's OR IGNORE
AddSeenItemNoIgnore(s, chat, id, url) == s (+) SetToBag({<<chat, url, id>>})

\* Database.add_seen_item: INSERT OR IGNORE under PRIMARY KEY (chat_id, url, item_id)
AddSeenItem(s, chat, id, url) ==
    IF BagIn(<<chat, url, id>>, s) THEN s ELSE s (+) SetToBag({<<chat, url, id>>})

\* an add_seen_item whose write is lost
CfgAddSeenItemLost(s, chat, id, url) == s

\* DBConfigManager.add_seen_item
CfgAddSeenItem(s, chat, id, url) ==
    IF url # "" THEN AddSeenItem(s, chat, id, url)
    ELSE AddSeenItem(s, chat, id, "unknown")

\* DELETE FROM seen_items WHERE chat_id = ? AND url = ?
DeleteSeenRows(s, chat, url) ==
    [r \in {x \in DOMAIN s : ~(x[1] = chat /\ x[2] = url)} |-> s[r]]

\* DELETE FROM search_urls WHERE chat_id = ? AND url = ?
DeleteUrlRow(q, chat, url) ==
    [q EXCEPT ![chat] = SelectSeq(q[chat], LAMBDA u : u # url)]

\* an add_search_url on a table without the UNIQUE(chat_id, url) constraint
AddSearchUrlNoUnique(q, chat, url) == [q EXCEPT ![chat] = Append(q[chat], url)]

\* Database.add_search_url: INSERT OR IGNORE under UNIQUE(chat_id, url)
AddSearchUrl(q, chat, url) ==
    IF url \in Range(q[chat]) THEN q ELSE [q EXCEPT ![chat] = Append(q[chat], url)]

\* a get_all_chats that reports every chat as running
GetAllChatsUnpaused(q, p) == [c \in Chats |-> [paused |-> FALSE, search_urls |-> q[c]]]

\* Database.add_search_url, its return value: cursor.rowcount > 0
AddSearchUrlReturns(q, chat, url) == url \notin Range(q[chat])

\* Database.get_all_chats: paused flag and get_search_urls of every chat
GetAllChats(q, p) == [c \in Chats |-> [paused |-> p[c], search_urls |-> q[c]]]

\* where a store error may strike remove_search_url: 0 never, 1 in the first
\* DELETE, 2 in the second DELETE, 3 in the commit
FailPoints == {0, 1, 2, 3}

\* remove_search_url with every statement committed on its own
RemoveSearchUrlAutocommit(q, s, chat, url, failAt) ==
    LET s1 == IF failAt = 1 THEN s ELSE DeleteSeenRows(s, chat, url)
        q1 == IF failAt \in {1, 2} THEN q ELSE DeleteUrlRow(q, chat, url)
    IN  [queries |-> q1, seen |-> s1,
         ok |-> failAt = 0 /\ url \in Range(q[chat]),
         rows |-> IF failAt = 0 THEN Cardinality(DOMAIN s \ DOMAIN s1) ELSE 0]

\* Database.remove_search_url: both DELETEs run in the one transaction the
\* connection opens; an exception leaves the with block, which rolls back
RemoveSearchUrl(q, s, chat, url, failAt) ==
    LET s1 == DeleteSeenRows(s, chat, url)
        q1 == DeleteUrlRow(q, chat, url)
    IN  IF failAt = 0
        THEN [queries |-> q1, seen |-> s1, ok |-> url \in Range(q[chat]),
              rows |-> Cardinality(DOMAIN s \ DOMAIN s1)]
        ELSE [queries |-> q, seen |-> s, ok |-> FALSE, rows |-> 0]

\* a sweep whose cutoff test is not strict
CleanupOldSeenItemsInclusive(tbl, daysOld, fail) ==
    LET old == {r \in DOMAIN tbl : tbl[r] >= daysOld}
    IN  IF fail THEN [table |-> tbl, count |-> 0]
        ELSE [table |-> [r \in DOMAIN tbl \ old |-> tbl[r]], count |-> Cardinality(old)]

\* Database.cleanup_old_seen_items on a table that maps each row to the age
\* of its seen_at in days: DELETE ... WHERE seen_at < datetime('now', '-N days'),
\* the rowcount returned; a store error rolls back and returns 0
CleanupOldSeenItems(tbl, daysOld, fail) ==
    LET old == {r \in DOMAIN tbl : tbl[r] > daysOld}
    IN  IF fail THEN [table |-> tbl, count |-> 0]
        ELSE [table |-> [r \in DOMAIN tbl \ old |-> tbl[r]], count |-> Cardinality(old)]

(* ------------- marketplace clients (vinted_client.py, lbc_client.py) ---- *)
\* a search_items that does not count the attempt
SearchItemsEnterNone(f) == f

\* search_items, first line: self.failed_attempts += 1
SearchItemsEnter(f) == f + 1

\* a search_items that forgets to reset the counter
SearchItemsExitKeep(f) == f

\* search_items, after the fetch returned: self.failed_attempts = 0
SearchItemsExit(f) == 0

\* VintedClient.get_new_items, the condition under which an unseen item is kept
VintedKeeps(id) == AgeHours(id) < WindowHours

\* LeBonCoinClient.get_new_items keeps every unseen item
LbcKeeps(id) == TRUE

\* a Vinted loop that marks only the items it keeps
RECURSIVE VintedLoopKeptOnly(_, _, _, _, _)
VintedLoopKeptOnly(its, seenIds, s, chat, url) ==
    IF its = <<>> THEN [new |-> <<>>, seen |-> s]
    ELSE LET id == Head(its)
             kept == Str(id) \notin seenIds /\ VintedKeeps(id)
             s1 == IF kept THEN CfgAddSeenItem(s, chat, Str(id), url) ELSE s
             rest == VintedLoopKeptOnly(Tail(its), seenIds, s1, chat, url)
         IN  [new |-> (IF kept THEN <<id>> ELSE <<>>) \o rest.new, seen |-> rest.seen]

\* the filter loop of get_new_items: seenIds is the set read before the loop,
\* s the seen_items table the loop writes to
RECURSIVE VintedLoop(_, _, _, _, _)
VintedLoop(its, seenIds, s, chat, url) ==
    IF its = <<>> THEN [new |-> <<>>, seen |-> s]
    ELSE LET id == Head(its)
             unseen == Str(id) \notin seenIds
             s1 == IF unseen THEN CfgAddSeenItem(s, chat, Str(id), url) ELSE s
             rest == VintedLoop(Tail(its), seenIds, s1, chat, url)
         IN  [new |-> (IF unseen /\ VintedKeeps(id) THEN <<id>> ELSE <<>>) \o rest.new,
              seen |-> rest.seen]

RECURSIVE LbcLoop(_, _, _, _, _)
LbcLoop(its, seenIds, s, chat, url) ==
    IF its = <<>> THEN [new |-> <<>>, seen |-> s]
    ELSE LET id == Head(its)
             unseen == Str(id) \notin seenIds
             s1 == IF unseen THEN CfgAddSeenItem(s, chat, Str(id), url) ELSE s
             rest == LbcLoop(Tail(its), seenIds, s1, chat, url)
         IN  [new |-> (IF unseen /\ LbcKeeps(id) THEN <<id>> ELSE <<>>) \o rest.new,
              seen |-> rest.seen]

\* get_new_items after search_items returned its: new_items and the table
GetNewItems(client, its, s, chat, url) ==
    IF client = "vinted"
    THEN VintedLoop(its, CfgGetSeenItems(s, chat), s, chat, url)
    ELSE LbcLoop(its, CfgGetSeenItems(s, chat), s, chat, url)

\* a get_new_items that writes its marks in one transaction after the loop
GetNewItemsStoppedBatch(client, its, s, chat, url, k, marked) == s

\* the seen_items table when get_new_items stops while it handles its k-th
\* item, before (marked = FALSE) or after that item's add_seen_item: every
\* add_seen_item of the earlier passes has committed on its own connection
GetNewItemsStopped(client, its, s, chat, url, k, marked) ==
    LET seenIds == CfgGetSeenItems(s, chat)
        done == SubSeq(its, 1, IF marked THEN k ELSE k - 1)
    IN  IF client = "vinted" THEN VintedLoop(done, seenIds, s, chat, url).seen
        ELSE LbcLoop(done, seenIds, s, chat, url).seen

\* get_new_items on a store that may fail: a failed SELECT makes
\* Database.get_seen_items return [], a failed INSERT makes add_seen_item
\* return False; both only log the error
GetNewItemsStore(client, its, s, chat, url, readOk, writeOk) ==
    LET seenIds == IF readOk THEN CfgGetSeenItems(s, chat) ELSE {}
        r == IF client = "vinted" THEN VintedLoop(its, seenIds, s, chat, url)
             ELSE LbcLoop(its, seenIds, s, chat, url)
        wrote == \E i \in DOMAIN its : Str(its[i]) \notin seenIds
    IN  [new |-> r.new,
         seen |-> IF writeOk THEN r.seen ELSE s,
         err |-> IF ~readOk THEN "read"
                 ELSE IF ~writeOk /\ wrote THEN "write" ELSE "none"]

\* parameters format_item_message declares besides self
FormatParams == 1
\* arguments the cycle and search_command pass to it: (item, url)
FormatArgs == 2

\* client.format_item_message(item, url): the message, or the TypeError Python
\* raises for a call with more arguments than the method declares
FormatItemMessage(client) == IF FormatArgs = FormatParams THEN "str" ELSE "TypeError"

(* ------------------------ handle_error (bot.py) ------------------------ *)
\* a handle_error that still offers the retry at failed_attempts = 2
HandleErrorLate(url, e, ipOk, f, n, pos, sess, ident) ==
    LET same == [retry |-> FALSE, proxyPos |-> pos, sessionProxy |-> sess,
                 identity |-> ident]
    IN  IF ~VintedValidateUrl(url) \/ e = "other" \/ (e = "403" /\ n = 0) THEN same
        ELSE IF e = "403"
        THEN [retry |-> ipOk /\ f <= 2, proxyPos |-> (pos + 1) % n,
              sessionProxy |-> pos + 1, identity |-> ident]
        ELSE [retry |-> f <= 2, proxyPos |-> pos, sessionProxy |-> 0,
              identity |-> ident + 1]

\* a handle_error that offers the retry of a 403 although there is no proxy
HandleErrorPoolless(url, e, ipOk, f, n, pos, sess, ident) ==
    LET same == [retry |-> FALSE, proxyPos |-> pos, sessionProxy |-> sess,
                 identity |-> ident]
    IN  IF ~VintedValidateUrl(url) \/ e = "other" THEN same
        ELSE IF e = "403"
        THEN IF n = 0 THEN [same EXCEPT !.retry = f <= 1]
             ELSE [retry |-> ipOk /\ f <= 1, proxyPos |-> (pos + 1) % n,
                   sessionProxy |-> pos + 1, identity |-> ident]
        ELSE [retry |-> f <= 1, proxyPos |-> pos, sessionProxy |-> 0,
              identity |-> ident + 1]

\* a handle_error without the validate_url test on the url
HandleErrorAnyClient(url, e, ipOk, f, n, pos, sess, ident) ==
    LET same == [retry |-> FALSE, proxyPos |-> pos, sessionProxy |-> sess,
                 identity |-> ident]
    IN  IF e = "403"
        THEN IF n = 0 THEN same
             ELSE [retry |-> ipOk /\ f <= 1, proxyPos |-> (pos + 1) % n,
                   sessionProxy |-> pos + 1, identity |-> ident]
        ELSE IF e = "401"
        THEN [retry |-> f <= 1, proxyPos |-> pos, sessionProxy |-> 0,
              identity |-> ident + 1]
        ELSE same

\* a handle_error that offers the retry for every class of error
HandleErrorRetryOther(url, e, ipOk, f, n, pos, sess, ident) ==
    [retry |-> f <= 1, proxyPos |-> pos, sessionProxy |-> sess, identity |-> ident]

\* handle_error(chat_id, url, e) up to its return True or its send_message.
\* e is "403", "401" or "other"; ipOk tells whether the request through the
\* new proxy to api.ipify.org went through; f is the client's failed_attempts
HandleError(url, e, ipOk, f, n, pos, sess, ident) ==
    LET same == [retry |-> FALSE, proxyPos |-> pos, sessionProxy |-> sess,
                 identity |-> ident]
    IN  IF VintedValidateUrl(url)
        THEN IF e = "403"
             THEN IF n = 0
                  THEN same     \* next(None) raises, swallowed by the bare except
                  ELSE [retry |-> ipOk /\ f <= 1,
                        proxyPos |-> (pos + 1) % n,
                        sessionProxy |-> pos + 1,
                        identity |-> ident]
             ELSE IF e = "401"
             THEN [retry |-> f <= 1, proxyPos |-> pos,
                   sessionProxy |-> 0,      \* a new requests.Session()
                   identity |-> ident + 1]
             ELSE same
        ELSE same

(* ------------------------------ initial state -------------------------- *)
\* search_urls tables the process may find in its database when it starts
InitQueries ==
    {[c \in Chats |-> IF c = 1 THEN q1 ELSE q2] :
        q1 \in {<<"v1", "v2">>, <<"l1", "v1">>}, q2 \in {<<>>, <<"v1">>}}

Keys == Chats \X Urls
NoTry == [chat |-> 0, url |-> "", kind |-> "none"]
NoRemove == [chat |-> 0, url |-> "", ok |-> FALSE, rows |-> 0]
NoSearch == [chat |-> 0, url |-> "", kind |-> "none", items |-> <<>>,
             replies |-> <<>>, note |-> FALSE]
NoProbe == [fn |-> "none"]
NoAdd == [chat |-> 0, url |-> "", ret |-> FALSE]
Rows == Chats \X Urls \X {Str(id) : id \in RawIds}

\* VintedBot.__init__: the clients, the proxy pool and an empty job state
InitCore ==
    /\ queries \in InitQueries
    /\ seen = EmptyBag
    /\ failed = [k \in Clients |-> 0]
    /\ numProxies \in ProxyCounts
    /\ proxyPos = 0
    /\ sessionProxy = 0
    /\ identity = 0
    /\ snap = GetAllChats(queries, paused)
    /\ todo = <<>>
    /\ cur = 0
    /\ work = <<>>
    /\ curUrl = ""
    /\ items = <<>>
    /\ newItems = <<>>
    /\ idx = 0
    /\ nFetch = 0 /\ nCmd = 0
    /\ hist = [k \in Keys |-> <<>>]
    /\ lastTry = [k \in Clients |-> NoTry]
    /\ fetched = {}
    /\ notified = [r \in Rows |-> 0]
    /\ lastRemove = NoRemove
    /\ gaveUp = {}
    /\ lastSearch = NoSearch
    /\ lastAdd = NoAdd
    /\ sinceOk = [k \in Clients |-> 0]
    /\ storeErr = "none"

\* VintedBot.__init__ and run(): startup_check has resumed every chat
InitBase ==
    /\ paused = [c \in Chats |-> FALSE]
    /\ cpc = "idle"
    /\ InitCore

Init == InitBase /\ probe = NoProbe

\* a startup_check that leaves the paused flags as it finds them
StartupResumeNone(p, readOk, bad) == p

\* startup_check: update_chat_settings(chat_id, paused=False) for every chat
\* get_all_chats reports as paused.  A failed get_all_chats returns {}, and a
\* failed UPDATE (the chats in bad) returns False; both are only logged
StartupResume(p, readOk, bad) ==
    [c \in Chats |-> IF readOk /\ p[c] /\ c \notin bad THEN FALSE ELSE p[c]]

\* run(): startup_check, then run_polling starts the job queue
StartupCheck(readOk, bad) ==
    /\ cpc = "stopped"
    /\ paused' = StartupResume(paused, readOk, bad)
    /\ cpc' = "idle"
    /\ probe' = [fn |-> "startup_check", before |-> paused, readOk |-> readOk,
                  bad |-> bad]
    /\ UNCHANGED <<queries, seen, recovery, snap, todo, cur, work, curUrl, items,
                   newItems, idx, budget, hist, lastTry, fetched, notified,
                   lastRemove, gaveUp, lastSearch, lastAdd, sinceOk, storeErr>>

(* ------------------- scheduled cycle (check_new_items_job) ------------- *)
\* the except clause of the cycle: handle_error, then the re-queue or the
\* error note.  fV is vinted_client.failed_attempts, rest the list after pop
OnException(url, e, ipOk, fV, rest) ==
    LET h == HandleError(url, e, ipOk, fV, numProxies, proxyPos, sessionProxy, identity)
    IN  [cpc |-> IF h.retry THEN "run" ELSE "await_err",
         work |-> IF h.retry THEN Append(rest, url) ELSE rest,
         proxyPos |-> h.proxyPos, sessionProxy |-> h.sessionProxy,
         identity |-> h.identity, sent |-> FALSE]

\* one pass of "for item in new_items" up to its await: format the item,
\* then invoke send_message
SendItem(client, url, ipOk, fV, rest) ==
    IF FormatItemMessage(client) = "TypeError"
    THEN OnException(url, "other", ipOk, fV, rest)
    ELSE [cpc |-> "await_item", work |-> rest, proxyPos |-> proxyPos,
          sessionProxy |-> sessionProxy, identity |-> identity, sent |-> TRUE]

Bump(n, chat, url, id) == [n EXCEPT ![<<chat, url, Str(id)>>] = @ + 1]

\* the job starts: all_chats = get_all_chats()
CycleStart ==
    /\ cpc = "idle"
    /\ snap' = GetAllChats(queries, paused)
    /\ todo' = ChatOrder
    /\ cpc' = "run"
    /\ cur' = 0 /\ work' = <<>> /\ curUrl' = ""
    /\ items' = <<>> /\ newItems' = <<>> /\ idx' = 0
    /\ hist' = [k \in Keys |-> <<>>]
    /\ lastTry' = [k \in Clients |-> NoTry]
    /\ gaveUp' = {}
    /\ UNCHANGED <<store, recovery, nFetch, nCmd, fetched, notified, lastRemove,
                   lastSearch, probe, lastAdd, sinceOk, storeErr>>

\* for chat_id_str, chat_config in all_chats.items(): paused chats and chats
\* without urls are skipped
CycleNextChat ==
    /\ cpc = "run" /\ work = <<>> /\ todo # <<>>
    /\ cur' = Head(todo)
    /\ todo' = Tail(todo)
    /\ work' = IF snap[Head(todo)].paused THEN <<>> ELSE snap[Head(todo)].search_urls
    /\ UNCHANGED <<store, recovery, budget, history, cpc, snap, curUrl, items,
                   newItems, idx>>

\* one pass of "while search_urls" up to its first await: pop, pick the client,
\* get_new_items, and either the first send or the except clause.  readOk and
\* writeOk tell whether sqlite serves the reads and the writes of get_new_items
CycleProcessUrlStore(out, ipOk, readOk, writeOk) ==
    /\ cpc = "run" /\ work # <<>>
    /\ LET url == Head(work)
           rest == Tail(work)
           client == ClientFor(url)
       IN  IF client = "none"
           THEN /\ work' = rest
                /\ curUrl' = url
                /\ items' = <<>> /\ newItems' = <<>> /\ idx' = 0
                /\ UNCHANGED <<store, recovery, budget, history, cpc, snap, todo, cur>>
           ELSE LET f1 == SearchItemsEnter(failed[client])
                    g == GetNewItemsStore(client, out.items, seen, cur, url, readOk, writeOk)
                    f2 == [failed EXCEPT ![client] =
                              IF out.kind = "ok" THEN SearchItemsExit(f1) ELSE f1]
                    r == IF out.kind # "ok"
                         THEN OnException(url, out.kind, ipOk, f2["vinted"], rest)
                         ELSE IF g.new = <<>>
                         THEN [cpc |-> "run", work |-> rest, proxyPos |-> proxyPos,
                               sessionProxy |-> sessionProxy, identity |-> identity,
                               sent |-> FALSE]
                         ELSE SendItem(client, url, ipOk, f2["vinted"], rest)
                IN  /\ nFetch < MaxFetches
                    /\ nFetch' = nFetch + 1
                    /\ failed' = f2
                    /\ seen' = IF out.kind = "ok" THEN g.seen ELSE seen
                    /\ items' = out.items
                    /\ newItems' = IF out.kind = "ok" THEN g.new ELSE <<>>
                    /\ idx' = IF out.kind = "ok" /\ g.new # <<>> THEN 1 ELSE 0
                    /\ curUrl' = url
                    /\ cpc' = r.cpc
                    /\ work' = r.work
                    /\ proxyPos' = r.proxyPos
                    /\ sessionProxy' = r.sessionProxy
                    /\ identity' = r.identity
                    /\ notified' = IF r.sent THEN Bump(notified, cur, url, g.new[1])
                                   ELSE notified
                    /\ hist' = [hist EXCEPT ![<<cur, url>>] = Append(@, out.kind)]
                    /\ lastTry' = [lastTry EXCEPT ![client] =
                                      [chat |-> cur, url |-> url, kind |-> out.kind]]
                    /\ fetched' = IF out.kind = "ok"
                                  THEN fetched \cup {<<cur, url, Str(id)>> : id \in Range(out.items)}
                                  ELSE fetched
                    /\ gaveUp' = IF out.kind = "403" /\ lastTry[client] =
                                        [chat |-> cur, url |-> url, kind |-> "403"]
                                 THEN gaveUp \cup {<<cur, url>>} ELSE gaveUp
                    /\ sinceOk' = [sinceOk EXCEPT ![client] =
                                      IF out.kind = "ok" THEN 0 ELSE @ + 1]
                    /\ storeErr' = IF out.kind # "ok" THEN "none" ELSE g.err
                    /\ UNCHANGED <<queries, paused, numProxies, snap, todo, cur,
                                   nCmd, lastRemove, lastSearch, probe, lastAdd>>

\* the same pass with a store that serves every read and write
CycleProcessUrl(out, ipOk) == CycleProcessUrlStore(out, ipOk, TRUE, TRUE)

\* the cycle resumes from an await: sendOk tells whether the awaited
\* send_message returned or raised
CycleResume(sendOk, ipOk) ==
    /\ cpc \in {"await_err", "await_item", "await_sleep"}
    /\ LET client == ClientFor(curUrl)
           stay == [cpc |-> "run", work |-> work, proxyPos |-> proxyPos,
                    sessionProxy |-> sessionProxy, identity |-> identity,
                    sent |-> FALSE]
           r == IF cpc = "await_err"
                THEN \* handle_error returns False, or its send_message raised
                     \* inside the except clause and the job's outer except ends it
                     IF sendOk THEN stay
                     ELSE [stay EXCEPT !.cpc = "idle", !.work = <<>>]
                ELSE IF cpc = "await_item"
                THEN IF sendOk THEN [stay EXCEPT !.cpc = "await_sleep"]
                     ELSE OnException(curUrl, "other", ipOk, failed["vinted"], work)
                ELSE \* asyncio.sleep(1) is over: next item, or next url
                     IF idx < Len(newItems)
                     THEN SendItem(client, curUrl, ipOk, failed["vinted"], work)
                     ELSE stay
           aborted == cpc = "await_err" /\ ~sendOk
       IN  /\ cpc' = r.cpc
           /\ work' = r.work
           /\ proxyPos' = r.proxyPos
           /\ sessionProxy' = r.sessionProxy
           /\ identity' = r.identity
           /\ idx' = IF aborted THEN 0
                     ELSE IF cpc = "await_sleep" /\ idx < Len(newItems) THEN idx + 1
                     ELSE idx
           /\ notified' = IF r.sent THEN Bump(notified, cur, curUrl, newItems[idx + 1])
                          ELSE notified
           /\ todo' = IF aborted THEN <<>> ELSE todo
           /\ cur' = IF aborted THEN 0 ELSE cur
           /\ curUrl' = IF aborted THEN "" ELSE curUrl
           /\ items' = IF aborted THEN <<>> ELSE items
           /\ newItems' = IF aborted THEN <<>> ELSE newItems
           /\ hist' = IF aborted THEN [k \in Keys |-> <<>>] ELSE hist
           /\ lastTry' = IF aborted THEN [k \in Clients |-> NoTry] ELSE lastTry
           /\ gaveUp' = IF aborted THEN {} ELSE gaveUp
           /\ UNCHANGED <<store, failed, numProxies, budget, snap, fetched, lastRemove,
                          lastSearch, probe, lastAdd, sinceOk, storeErr>>

\* both loops are exhausted: the job returns
CycleEnd ==
    /\ cpc = "run" /\ work = <<>> /\ todo = <<>>
    /\ cpc' = "idle"
    /\ cur' = 0 /\ curUrl' = "" /\ items' = <<>> /\ newItems' = <<>> /\ idx' = 0
    /\ hist' = [k \in Keys |-> <<>>]
    /\ lastTry' = [k \in Clients |-> NoTry]
    /\ gaveUp' = {}
    /\ UNCHANGED <<store, recovery, budget, snap, todo, work, fetched, notified,
                   lastRemove, lastSearch, probe, lastAdd, sinceOk, storeErr>>

(* --------------------------- shell commands ---------------------------- *)
\* handlers run while the job is idle or suspended at an await
ShellMayRun == cpc \in {"idle", "await_err", "await_item", "await_sleep"}

\* add_url_command: the url is validated, then add_search_url
AddUrlCmd(chat, url) ==
    /\ ShellMayRun /\ nCmd < MaxCmds
    /\ nCmd' = nCmd + 1
    /\ queries' = IF VintedValidateUrl(url) \/ LbcValidateUrl(url)
                  THEN AddSearchUrl(queries, chat, url) ELSE queries
    /\ lastAdd' = IF VintedValidateUrl(url) \/ LbcValidateUrl(url)
                  THEN [chat |-> chat, url |-> url,
                        ret |-> AddSearchUrlReturns(queries, chat, url)]
                  ELSE lastAdd
    /\ UNCHANGED <<seen, paused, recovery, cycle, nFetch, hist, lastTry, fetched,
                   notified, lastRemove, gaveUp, lastSearch, probe, sinceOk, storeErr>>

\* handle_callback: the url is what follows "add_" in the callback data; it
\* goes to add_search_url without a validate_url call
HandleCallback(chat, url) ==
    /\ ShellMayRun /\ nCmd < MaxCmds
    /\ nCmd' = nCmd + 1
    /\ queries' = AddSearchUrl(queries, chat, url)
    /\ lastAdd' = [chat |-> chat, url |-> url,
                   ret |-> AddSearchUrlReturns(queries, chat, url)]
    /\ UNCHANGED <<seen, paused, recovery, cycle, nFetch, hist, lastTry, fetched,
                   notified, lastRemove, gaveUp, lastSearch, probe, sinceOk, storeErr>>

\* remove_url_command: remove_search_url
RemoveUrlCmd(chat, url, failAt) ==
    /\ ShellMayRun /\ nCmd < MaxCmds
    /\ nCmd' = nCmd + 1
    /\ LET r == RemoveSearchUrl(queries, seen, chat, url, failAt)
       IN  /\ queries' = r.queries
           /\ seen' = r.seen
           /\ lastRemove' = [chat |-> chat, url |-> url, ok |-> r.ok, rows |-> r.rows]
    /\ fetched' = {k \in fetched : k[1] # chat}
    /\ notified' = [k \in Rows |->
                       IF k[1] = chat /\ k[2] = url THEN 0 ELSE notified[k]]
    /\ UNCHANGED <<paused, recovery, cycle, nFetch, hist, lastTry, gaveUp,
                   lastSearch, probe, lastAdd, sinceOk, storeErr>>

\* pause_command: update_chat_settings(chat_id, paused=True)
PauseCmd(chat) ==
    /\ ShellMayRun /\ nCmd < MaxCmds
    /\ nCmd' = nCmd + 1
    /\ paused' = [paused EXCEPT ![chat] = TRUE]
    /\ UNCHANGED <<queries, seen, recovery, cycle, nFetch, history>>

\* resume_command: update_chat_settings(chat_id, paused=False)
ResumeCmd(chat) ==
    /\ ShellMayRun /\ nCmd < MaxCmds
    /\ nCmd' = nCmd + 1
    /\ paused' = [paused EXCEPT ![chat] = FALSE]
    /\ UNCHANGED <<queries, seen, recovery, cycle, nFetch, history>>

\* fetch outcomes as search_command tells them apart: failure, nothing, something
SearchOutcomes == {o \in FetchOutcomes : o.items \in {<<>>, <<1>>}}

\* search_command: search_items, then a reply per item; any exception, the
\* TypeError of format_item_message included, goes to handle_error, whose
\* return value is dropped
SearchCmd(chat, url, out, ipOk) ==
    /\ ShellMayRun
    /\ ClientFor(url) # "none"     \* else only the "invalid url" reply
    /\ LET client == ClientFor(url)
           f1 == SearchItemsEnter(failed[client])
           f2 == [failed EXCEPT ![client] =
                     IF out.kind = "ok" THEN SearchItemsExit(f1) ELSE f1]
           e == IF out.kind # "ok" THEN out.kind
                ELSE IF out.items # <<>> /\ FormatItemMessage(client) = "TypeError"
                THEN "other" ELSE "none"
           h == HandleError(url, e, ipOk, f2["vinted"], numProxies, proxyPos,
                            sessionProxy, identity)
       IN  /\ nFetch < MaxFetches
           /\ nFetch' = nFetch + 1
           /\ failed' = f2
           /\ proxyPos' = IF e = "none" THEN proxyPos ELSE h.proxyPos
           /\ sessionProxy' = IF e = "none" THEN sessionProxy ELSE h.sessionProxy
           /\ identity' = IF e = "none" THEN identity ELSE h.identity
           /\ lastTry' = [lastTry EXCEPT ![client] =
                             [chat |-> 0, url |-> url, kind |-> out.kind]]
           /\ lastSearch' =
                 [chat |-> chat, url |-> url, kind |-> out.kind, items |-> out.items,
                  \* the items replied before the loop ended or raised
                  replies |-> IF e = "none" THEN out.items ELSE <<>>,
                  \* handle_error got as far as its error message
                  note |-> e # "none" /\ ~h.retry]
    /\ nCmd < MaxCmds
    /\ nCmd' = nCmd + 1
    /\ sinceOk' = [sinceOk EXCEPT ![ClientFor(url)] =
                       IF out.kind = "ok" THEN 0 ELSE @ + 1]
    /\ UNCHANGED <<store, numProxies, cycle, hist, fetched, notified, lastRemove,
                   gaveUp, probe, lastAdd, storeErr>>

(* ----------------------------- specification --------------------------- *)
\* the scheduled job
CycleNext ==
    \/ CycleStart
    \/ CycleNextChat
    \/ \E out \in FetchOutcomes, ipOk \in BOOLEAN : CycleProcessUrl(out, ipOk)
    \/ \E sendOk \in BOOLEAN, ipOk \in BOOLEAN : CycleResume(sendOk, ipOk)
    \/ CycleEnd

\* the scheduled job under every fetch outcome
Next == CycleNext

Spec == Init /\ [][Next]_vars

\* fetches that fail with a plain error or return at most item 1
SmallOutcomes ==
    {o \in FetchOutcomes : o.kind \in {"ok", "other"} /\ o.items \in {<<>>, <<1>>}}

\* the scheduled job under these fetches
CycleNextSmall ==
    \/ CycleStart
    \/ CycleNextChat
    \/ \E out \in SmallOutcomes, ipOk \in BOOLEAN : CycleProcessUrl(out, ipOk)
    \/ \E sendOk \in BOOLEAN, ipOk \in BOOLEAN : CycleResume(sendOk, ipOk)
    \/ CycleEnd

\* /add and /remove
QueryCmds ==
    \/ \E chat \in Chats, url \in Urls : AddUrlCmd(chat, url)
    \/ \E chat \in Chats, url \in Urls, failAt \in FailPoints :
          RemoveUrlCmd(chat, url, failAt)

\* the scheduled job interleaved with /add and /remove, without proxies
InitQ == Init /\ numProxies = 0 /\ queries[1] = <<"v1", "v2">>

SpecQueries == InitQ /\ [][CycleNextSmall \/ QueryCmds]_vars

\* validate_url of both clients applied to the host of a url
ValidateCall(host) ==
    /\ probe' = [fn |-> "validate_url", host |-> host,
                  vinted |-> VintedValidateHost(host),
                  leboncoin |-> LbcValidateHost(host)]
    /\ UNCHANGED <<store, recovery, cycle, budget, hist, lastTry, fetched, notified,
                   lastRemove, gaveUp, lastSearch, lastAdd, sinceOk, storeErr>>

ValidateNext == \E host \in Hosts : ValidateCall(host)

\* validate_url over the sample hosts
InitV == Init /\ numProxies = 0

SpecValidate == InitV /\ [][ValidateNext]_vars

\* days_old of the sweep as cleanup_job passes it
RetentionDays == 30

\* rows and seen_at ages (in days) of the sample seen_items tables
SampleRows == {<<1, "v1", "1">>, <<1, "v1", "2">>, <<2, "l1", "1">>}
SampleAges == {0, RetentionDays - 1, RetentionDays, RetentionDays + 1}
LedgerTables == UNION {[S -> SampleAges] : S \in SUBSET SampleRows}

\* cleanup_old_seen_items applied to a table
CleanupCall(tbl, daysOld, fail) ==
    /\ probe' = [fn |-> "cleanup_old_seen_items", table |-> tbl, daysOld |-> daysOld,
                  fail |-> fail,
                  after |-> CleanupOldSeenItems(tbl, daysOld, fail).table,
                  count |-> CleanupOldSeenItems(tbl, daysOld, fail).count]
    /\ UNCHANGED <<store, recovery, cycle, budget, hist, lastTry, fetched, notified,
                   lastRemove, gaveUp, lastSearch, lastAdd, sinceOk, storeErr>>

CleanupNext ==
    \E tbl \in LedgerTables, daysOld \in {RetentionDays - 1, RetentionDays},
       fail \in BOOLEAN : CleanupCall(tbl, daysOld, fail)

\* the retention sweep over the sample tables
InitL == Init /\ numProxies = 0 /\ queries = <<<<"v1", "v2">>, <<>>>>

SpecCleanup == InitL /\ [][CleanupNext]_vars

\* the "add to monitoring" button
CallbackCmds == \E chat \in Chats, url \in Urls : HandleCallback(chat, url)

\* the scheduled job interleaved with button presses, without proxies
InitB == Init /\ numProxies = 0 /\ queries[1] = <<"l1", "v1">>

SpecCallback == InitB /\ [][CycleNextSmall \/ CallbackCmds]_vars

\* /search
SearchCmds ==
    \E chat \in Chats, url \in Urls, out \in SearchOutcomes, ipOk \in BOOLEAN :
        SearchCmd(chat, url, out, ipOk)

\* the scheduled job interleaved with on-demand searches
InitS == Init /\ queries = <<<<"v1", "v2">>, <<>>>>

SpecSearch == InitS /\ [][CycleNextSmall \/ SearchCmds]_vars

\* the scheduled job on a store whose reads and writes may fail
CycleNextStore ==
    \/ CycleStart
    \/ CycleNextChat
    \/ \E out \in SmallOutcomes, ipOk \in BOOLEAN, readOk \in BOOLEAN, writeOk \in BOOLEAN :
          CycleProcessUrlStore(out, ipOk, readOk, writeOk)
    \/ \E sendOk \in BOOLEAN, ipOk \in BOOLEAN : CycleResume(sendOk, ipOk)
    \/ CycleEnd

InitT == Init /\ numProxies = 0 /\ queries[1] = <<"v1", "v2">>

SpecStore == InitT /\ [][CycleNextStore]_vars

\* jobs _setup_handlers registers with job_queue.run_daily: none, the
\* registration of cleanup_job is commented out
DailyJobs == {}

\* seen_at ages are followed up to two days past the retention threshold
AgeCap == 32

\* a day passes: the calendar day changes parity, every row of seen_items is
\* a day older, and at 03:00 the job queue runs the daily jobs that were
\* registered
DayPasses ==
    /\ probe.fn = "seen_items"
    /\ LET aged == [r \in DOMAIN probe.table |->
                       IF probe.table[r] < AgeCap THEN probe.table[r] + 1 ELSE AgeCap]
       IN  probe' = [fn |-> "seen_items", day |-> 1 - probe.day,
                     table |-> IF "cleanup_job" \in DailyJobs
                               THEN CleanupOldSeenItems(aged, RetentionDays, FALSE).table
                               ELSE aged]
    /\ UNCHANGED <<store, recovery, cycle, budget, hist, lastTry, fetched, notified,
                   lastRemove, gaveUp, lastSearch, lastAdd, sinceOk, storeErr>>

\* the process starts on a seen_items table with rows of various ages
InitW ==
    /\ InitBase /\ numProxies = 0 /\ queries = <<<<"v1", "v2">>, <<>>>>
    /\ probe \in {[fn |-> "seen_items", day |-> 0, table |-> tbl] : tbl \in LedgerTables}

\* the passing days; the job queue runs its daily jobs every day
SpecSweep == InitW /\ [][DayPasses]_vars /\ WF_vars(DayPasses)

\* seen_items tables get_new_items may start from
SampleSeen == {SetToBag(S) : S \in SUBSET {<<1, "v1", "1">>, <<1, "v2", "2">>, <<2, "v1", "1">>}}

\* get_new_items(url, chat) stopped by an exception or a crash in the pass
\* of its k-th item
InterruptCall(its, tbl, chat, url, k, marked) ==
    /\ probe = NoProbe      \* the call under study is the first of the process
    /\ ClientFor(url) # "none"
    /\ probe' = [fn |-> "get_new_items", items |-> its, chat |-> chat, url |-> url,
                  at |-> k, marked |-> marked, before |-> tbl,
                  after |-> GetNewItemsStopped(ClientFor(url), its, tbl, chat, url,
                                               k, marked)]
    /\ UNCHANGED <<store, recovery, cycle, budget, hist, lastTry, fetched, notified,
                   lastRemove, gaveUp, lastSearch, lastAdd, sinceOk, storeErr>>

InterruptNext ==
    \E its \in ItemLists, tbl \in SampleSeen, chat \in Chats, url \in Urls,
       marked \in BOOLEAN :
        \E k \in DOMAIN its : InterruptCall(its, tbl, chat, url, k, marked)

\* get_new_items interrupted at every position over the sample tables
InitI == Init /\ numProxies = 0 /\ queries = <<<<"v1", "v2">>, <<>>>>

SpecInterrupt == InitI /\ [][InterruptNext]_vars

\* the process is started on a database with any paused flags
InitU ==
    /\ paused \in [Chats -> BOOLEAN]
    /\ cpc = "stopped"
    /\ InitCore /\ numProxies = 0
    /\ probe = NoProbe

StartupNext ==
    \E readOk \in BOOLEAN, bad \in SUBSET Chats :
        (readOk \/ bad = {}) /\ StartupCheck(readOk, bad)

\* startup, then the scheduled job
SpecStartup == InitU /\ [][StartupNext \/ CycleNextSmall]_vars

\* /pause and /resume
PauseCmds ==
    \/ \E chat \in Chats : PauseCmd(chat)
    \/ \E chat \in Chats : ResumeCmd(chat)

\* the scheduled job interleaved with /pause and /resume, without proxies
InitP == Init /\ numProxies = 0 /\ queries[2] = <<"v1">>

SpecPause == InitP /\ [][CycleNextSmall \/ PauseCmds]_vars

(* ------------------------------- claims -------------------------------- *)
NoRepeat(seq) == \A i, j \in DOMAIN seq : seq[i] = seq[j] => i = j
Count(seq, x) == Cardinality({i \in DOMAIN seq : seq[i] = x})
InWindow(idText) == \E id \in RawIds : Str(id) = idText /\ AgeHours(id) < WindowHours
\* this step is a fetch made by the scheduled cycle
CycleFetch == cpc = "run" /\ nFetch' = nFetch + 1
\* the scheduled cycle has finished with curUrl and is about to take the next
MovedOn == cpc = "run" /\ cur # 0 /\ curUrl # ""

\* C1 (as claimed): no new-item notification is sent twice for one
\* (subscriber, url, item id), and one get_new_items call never returns the
\* same item id twice.
C1_AtMostOnce ==
    /\ \A r \in Rows : notified[r] <= 1
    /\ NoRepeat(newItems)

C3_MarkSeenIdempotent ==
    /\ \A r \in BagToSet(seen) : CopiesIn(r, seen) = 1
    /\ \A r \in Rows :
          LET once == CfgAddSeenItem(seen, r[1], r[3], r[2])
              twice == CfgAddSeenItem(once, r[1], r[3], r[2])
          IN  CopiesIn(r, twice) = 1 /\ twice = once

\* one get_new_items call judged item 1 unseen twice and so called
\* add_seen_item twice for the same key
C3_Witness ==
    /\ cur # 0 /\ items = <<1, 1>> /\ newItems = <<1, 1>>
    /\ CopiesIn(<<cur, curUrl, "1">>, seen) = 1

\* C4 (as claimed): every SeenRecord refers to a Query that exists.
C4_NoOrphanSeenRecord ==
    \A r \in BagToSet(seen) : r[2] \in Range(queries[r[1]])

\* C5: remove_search_url is all or nothing: a step that deletes a Query
\* leaves no SeenRecord of it, and a step that deletes SeenRecords of a
\* (subscriber, url) leaves no Query of it; a store error changes neither.
C5_RemoveAtomic ==
    [][\A c \in Chats, u \in Urls :
         /\ (u \in Range(queries[c]) /\ u \notin Range(queries'[c]))
               => GetSeenItems(seen', c, u) = {}
         /\ ~(GetSeenItems(seen, c, u) \subseteq GetSeenItems(seen', c, u))
               => u \notin Range(queries'[c])]_vars

\* a removal has deleted a Query together with its SeenRecords
C5_Witness ==
    /\ lastRemove.ok /\ lastRemove.rows > 0
    /\ lastRemove.url \notin Range(queries[lastRemove.chat])
    /\ GetSeenItems(seen, lastRemove.chat, lastRemove.url) = {}

\* C6 (as claimed): when a cycle is over, every SeenRecord of an item inside
\* the 7-day window has had its new-item notification sent.
C6_SeenImpliesNotified ==
    cpc = "idle" =>
        \A r \in BagToSet(seen) : InWindow(r[3]) => notified[r] >= 1

\* C7 (as claimed): when the cycle moves on to the next Query, send has been
\* invoked exactly once for every item get_new_items returned.
C7_EachNewItemSentOnce ==
    MovedOn =>
        \A i \in DOMAIN newItems :
            notified[<<cur, curUrl, Str(newItems[i])>>] = Count(newItems, newItems[i])

\* C8 (as claimed): for both clients, get_new_items leaves out a never-seen
\* item older than the 7-day window and returns a never-seen item inside it.
C8_WindowFilter ==
    [][CycleFetch =>
         \A i \in DOMAIN items' :
            Str(items'[i]) \notin CfgGetSeenItems(seen, cur) =>
               (items'[i] \in Range(newItems') <=> AgeHours(items'[i]) < WindowHours)]_vars

\* C9: when a Query's first attempt in a cycle fails with 403 and its retry
\* succeeds, get_new_items hands the cycle the fetched items that are unseen
\* and inside the window, in that same cycle, and failed_attempts is 0.
C9_RetrySucceeds ==
    [][\A k \in Keys :
         (CycleFetch /\ hist[k] = <<"403">> /\ hist'[k] = <<"403", "ok">>) =>
            /\ failed'["vinted"] = 0
            /\ cur' = k[1] /\ curUrl' = k[2]
            /\ newItems' = SelectSeq(items', LAMBDA id :
                               /\ Str(id) \notin CfgGetSeenItems(seen, k[1])
                               /\ AgeHours(id) < WindowHours)]_vars

\* a retry after a 403 has just returned items, with a proxy pool configured
C9_Witness ==
    /\ cur # 0 /\ curUrl # "" /\ numProxies > 0
    /\ hist[<<cur, curUrl>>] = <<"403", "ok">>
    /\ newItems # <<>> /\ failed["vinted"] = 0

C11_AtMostOneRequeue ==
    \A k \in Keys :
        /\ Len(hist[k]) <= 2
        /\ (Len(hist[k]) = 2 /\ cur = k[1]) => k[2] \notin Range(work)

\* C12 (as claimed): a failure while one Query is processed never keeps the
\* remaining Queries and subscribers from being processed: the scheduled
\* cycle ends only when its work list and its list of chats are exhausted.
C12_FailureIsolation ==
    [][(cpc # "idle" /\ cpc' = "idle") => (work = <<>> /\ todo = <<>>)]_vars

\* C13 (as claimed): when the item loop of a Query is over after the
\* notification of the item at position idx failed, the new items behind it
\* have been sent all the same.
C13_RemainingItemsSent ==
    (cpc \in {"run", "await_err"} /\ curUrl # "" /\ NoRepeat(newItems)) =>
        \A i \in (idx + 1)..Len(newItems) :
            notified[<<cur, curUrl, Str(newItems[i])>>] > 0

\* rows of one chat in the seen_items table
RowsOf(s, chat) == {r \in BagToSet(s) : r[1] = chat}

\* C14: during a scheduled cycle that found a subscriber paused when it
\* started, no fetch is made for that subscriber, no new-item notification and
\* no error note is sent to it, and its rows of seen_items stay as they are.
C14_PausedSkipped ==
    [][\A c \in Chats :
         \* the starting cycle takes the paused flag as the store has it
         /\ (cpc = "idle" /\ cpc' = "run") => snap'[c].paused = paused[c]
         /\ (cpc # "idle" /\ snap[c].paused) =>
               /\ CycleFetch => cur # c
               /\ cur = c => work = <<>>
               /\ (cpc' \in {"await_err", "await_item"} /\ cpc' # cpc) => cur # c
               /\ \A r \in Rows : r[1] = c => notified'[r] = notified[r]
               /\ RowsOf(seen', c) = RowsOf(seen, c)]_vars

\* a cycle that found chat 1 paused has passed it and fetched for chat 2
C14_Witness ==
    /\ cpc = "run" /\ snap[1].paused /\ snap[1].search_urls # <<>>
    /\ cur = 2 /\ curUrl # "" /\ hist[<<2, curUrl>>] # <<>>

\* C15 (as claimed): no host is accepted by the validate_url of both clients,
\* and a host that names neither marketplace is accepted by none.
C15_ValidatePartition ==
    probe.fn = "validate_url" =>
        /\ ~(probe.vinted /\ probe.leboncoin)
        /\ (\A i \in DOMAIN probe.host :
                Lower(probe.host[i]) \notin {"vinted", "leboncoin"})
              => (~probe.vinted /\ ~probe.leboncoin)

\* C16: a sweep that meets no store error deletes exactly the rows whose
\* seen_at is more than daysOld days old and keeps the others as they were;
\* in every case it returns the number of rows it deleted.
C16_CleanupExact ==
    probe.fn = "cleanup_old_seen_items" =>
        /\ ~probe.fail =>
              DOMAIN probe.after =
                 {r \in DOMAIN probe.table : probe.table[r] <= probe.daysOld}
        /\ \A r \in DOMAIN probe.after :
              r \in DOMAIN probe.table /\ probe.after[r] = probe.table[r]
        /\ probe.count = Cardinality(DOMAIN probe.table \ DOMAIN probe.after)

\* a sweep has deleted a row one day past the cutoff and kept one exactly at it
C16_Witness ==
    /\ probe.fn = "cleanup_old_seen_items" /\ ~probe.fail /\ probe.count = 1
    /\ \E r \in DOMAIN probe.table : probe.table[r] = probe.daysOld + 1
    /\ \E r \in DOMAIN probe.after : probe.after[r] = probe.daysOld

\* C17: when the scheduled cycle takes a url that neither client validates,
\* it goes on to the next url without a fetch, without sending anything, and
\* with seen_items, both failure counters and the session left as they were.
C17_UnsupportedSkipped ==
    [][(/\ cpc = "run" /\ work # <<>>
        /\ ~VintedValidateUrl(Head(work)) /\ ~LbcValidateUrl(Head(work))) =>
          /\ cpc' = "run" /\ work' = Tail(work)
          /\ nFetch' = nFetch
          /\ notified' = notified
          /\ seen' = seen
          /\ failed' = failed
          /\ <<proxyPos, sessionProxy, identity>>' = <<proxyPos, sessionProxy, identity>>]_vars

\* the cycle has just passed over the url of another site
C17_Witness ==
    /\ cpc = "run" /\ cur # 0 /\ curUrl = "x1"
    /\ "x1" \in Range(snap[cur].search_urls)

\* C18 (as claimed): an on-demand search replies with the items it fetched,
\* seen or not, and it leaves seen_items unchanged whether it succeeds or fails.
C18_SearchRepliesAndKeepsLedger ==
    [][lastSearch' # lastSearch =>
         /\ seen' = seen
         /\ lastSearch'.kind = "ok" => lastSearch'.replies = lastSearch'.items]_vars

\* C19 (as claimed): format_item_message, called with (item, url) for a new
\* item of the scheduled cycle, returns a string and does not raise, with
\* either client.
C19_FormatNeverRaises ==
    (curUrl # "" /\ newItems # <<>>) =>
        FormatItemMessage(ClientFor(curUrl)) = "str"

\* the last fetch of Query k, made in this step, ended in an exception that is
\* neither a 403 nor a 401: the fetch raised it, or the formatting of a new item
RaisedOther(k) ==
    /\ CycleFetch /\ hist'[k] # hist[k]
    /\ \/ hist'[k][Len(hist'[k])] = "other"
       \/ /\ hist'[k][Len(hist'[k])] = "ok" /\ newItems' # <<>>
          /\ FormatItemMessage(ClientFor(k[2])) = "TypeError"

LastOf(seq) == seq[Len(seq)]
\* this step is the scheduled cycle's fetch of Query k
FetchedNow(k) == CycleFetch /\ hist'[k] # hist[k]

\* C21 (as claimed): a fetch that fails with an exception that is neither a
\* 403 nor a 401 leaves failed_attempts of both clients, the proxy position,
\* the session's proxy and the user agent as they were before the fetch.
C21_OtherKeepsRecovery ==
    [][\A k \in Keys :
         (FetchedNow(k) /\ LastOf(hist'[k]) = "other") =>
            /\ failed' = failed
            /\ <<proxyPos, sessionProxy, identity>>' = <<proxyPos, sessionProxy, identity>>]_vars

\* C22: without a proxy pool, a fetch of the cycle that fails with 403 is
\* never re-queued: handle_error goes to its error message and the url is off
\* the work list.
C22_NoPoolNoRetry ==
    [][\A k \in Keys :
         (numProxies = 0 /\ FetchedNow(k) /\ LastOf(hist'[k]) = "403") =>
            /\ cpc' = "await_err" /\ cur' = k[1] /\ curUrl' = k[2]
            /\ work' = Tail(work) /\ k[2] \notin Range(work')]_vars

\* the error note of a first 403 is being sent, no proxy being configured
C22_Witness ==
    /\ numProxies = 0 /\ cpc = "await_err" /\ cur # 0 /\ curUrl # ""
    /\ hist[<<cur, curUrl>>] = <<"403">> /\ failed["vinted"] = 1

\* C23: a failed fetch is re-queued only while the client's failed_attempts
\* is at most 1; above 1, whatever the class of the failure, handle_error
\* goes to its error message and the url is not re-queued.
C23_RetryOnlyUpToOne ==
    [][\A k \in Keys :
         (FetchedNow(k) /\ LastOf(hist'[k]) # "ok") =>
            /\ k[2] \in Range(work') => failed'[ClientFor(k[2])] <= 1
            /\ failed'[ClientFor(k[2])] > 1 =>
                  (cpc' = "await_err" /\ k[2] \notin Range(work'))]_vars

\* the error note of a second 401 in a row is being sent
C23_Witness ==
    /\ cpc = "await_err" /\ cur # 0 /\ curUrl # ""
    /\ hist[<<cur, curUrl>>] = <<"401", "401">> /\ failed["vinted"] = 2

\* C24 (as claimed): on a 401 of a Vinted fetch the user agent is
\* regenerated and the proxy position stays; on a 403 with a proxy pool the
\* position advances; either way the Query is re-queued at most once in the
\* cycle.
C24_RecoveryActions ==
    [][\A k \in Keys :
         (FetchedNow(k) /\ VintedValidateUrl(k[2])) =>
            /\ LastOf(hist'[k]) = "401" =>
                  (identity' = identity + 1 /\ proxyPos' = proxyPos)
            /\ (LastOf(hist'[k]) = "403" /\ numProxies > 0) =>
                  proxyPos' = (proxyPos + 1) % numProxies
            /\ (LastOf(hist'[k]) \in {"401", "403"} /\ Len(hist'[k]) >= 2) =>
                  k[2] \notin Range(work')]_vars

\* C29 (as claimed): get_new_items(url, chat) returns every fetched item inside
\* the window that has no row under (chat, url), also when the chat has a row
\* for that id under another url.
C29_NewnessPerQuery ==
    [][\A k \in Keys :
         (FetchedNow(k) /\ LastOf(hist'[k]) = "ok") =>
            \A i \in DOMAIN items' :
               (/\ AgeHours(items'[i]) < WindowHours
                /\ Str(items'[i]) \notin GetSeenItems(seen, k[1], k[2]))
                  => items'[i] \in Range(newItems')]_vars

\* C30 (as claimed): when get_new_items(url, chat) has returned, seen_items
\* holds a row (chat, url, id) for every id the fetch returned, also for an id
\* the chat already had under another url.
C30_RowPerFetchedId ==
    [][\A k \in Keys :
         (FetchedNow(k) /\ LastOf(hist'[k]) = "ok") =>
            \A i \in DOMAIN items' :
               BagIn(<<k[1], k[2], Str(items'[i])>>, seen')]_vars

\* C25 (as claimed): when a read or a write of seen_items fails inside
\* get_new_items, the cycle goes to the error message for the subscriber and
\* gives the Query up for this pass: no item is handed on as new.
C25_StoreFailureSurfaced ==
    [][(CycleFetch /\ storeErr' # "none") =>
          (cpc' = "await_err" /\ newItems' = <<>>)]_vars

\* C26 (as claimed): a row of seen_items whose seen_at has become older than
\* the retention threshold is eventually deleted by the daily sweep, with no
\* request from the shell.
C26_SweepEventuallyDeletes ==
    \A r \in SampleRows :
        (r \in DOMAIN probe.table /\ probe.table[r] > RetentionDays)
            ~> (r \notin DOMAIN probe.table)

\* C27: no chat ever holds the same url twice, and an add_search_url of a url
\* the chat already monitors returns False and changes neither the search
\* urls nor the seen items.
C27_UniquePerChatUrl ==
    [][ /\ \A c \in Chats : NoRepeat(queries'[c])
        /\ lastAdd' # lastAdd =>
             /\ lastAdd'.ret = (lastAdd'.url \notin Range(queries[lastAdd'.chat]))
             /\ ~lastAdd'.ret => (queries' = queries /\ seen' = seen) ]_vars

\* C27 witness: an add of a url the chat already monitored has returned False
C27_Witness ==
    /\ lastAdd.chat # 0
    /\ ~lastAdd.ret
    /\ lastAdd.url \in Range(queries[lastAdd.chat])

\* C28: for each marketplace client, failed_attempts equals the number of
\* search_items calls on that client (from the scheduled job or from /search)
\* since its last fetch that succeeded.
C28_CounterIsAttemptsSinceOk == \A k \in Clients : failed[k] = sinceOk[k]

\* C28 witness: two fetches in a row have failed on the vinted client, the
\* last of them in an on-demand search
C28_Witness ==
    /\ lastSearch.chat # 0
    /\ lastSearch.kind # "ok"
    /\ ClientFor(lastSearch.url) = "vinted"
    /\ sinceOk["vinted"] = 2

WorkLeft ==
    3 * Cardinality({i \in DOMAIN work : ClientFor(work[i]) = "vinted"})
      + Cardinality({i \in DOMAIN work : ClientFor(work[i]) # "vinted"})
      + 2 - (IF failed["vinted"] < 2 THEN failed["vinted"] ELSE 2)

\* C32: under every fetch outcome, each pass of the while loop of
\* check_new_items_job strictly decreases a natural number computed from the
\* work list and the failure counter, so the work list of a chat is empty
\* after finitely many fetches, re-queues included.
C32_CycleTerminates ==
    [][ (cpc = "run" /\ work # <<>>) => (WorkLeft' < WorkLeft /\ WorkLeft' >= 0) ]_vars

\* C32 witness: a url that failed, was re-queued and failed again has left
\* the work list, which is now empty
C32_Witness ==
    /\ cur = 1 /\ work = <<>>
    /\ hist[<<1, "v1">>] = <<"401", "401">>
    /\ failed["vinted"] = 2

\* C33 (as claimed): when the cycle re-queues a url after a failed fetch, that
\* url is the next one the while loop of the chat fetches: no other url of
\* the chat comes before the retry.
C33_RetryIsNextFetch ==
    [][ (CycleFetch /\ Head(work) \in Range(work')) => Head(work') = Head(work) ]_vars

\* C34 (as claimed): once /pause has set the paused flag of a chat, the
\* scheduled job makes no fetch for that chat, sends it no new-item message
\* and writes no seen_items row for it, even when the flag was set while the
\* job was already running.
C34_PauseGatesInFlight ==
    [][ \A c \in Chats :
          (paused[c] /\ paused'[c]) =>
             /\ ~(CycleFetch /\ cur = c)
             /\ \A r \in Rows : r[1] = c => notified'[r] = notified[r]
             /\ \A r \in Rows : r[1] = c => CopiesIn(r, seen') = CopiesIn(r, seen) ]_vars

\* the rows of one chat in a seen_items table
OnlyChat(s, c) == [r \in {x \in DOMAIN s : x[1] = c} |-> s[r]]

\* C35: a get_new_items for a chat returns, and records for that chat, exactly
\* what it would on a table holding that chat's rows alone, and neither it
\* nor a remove_search_url of a chat changes a row of another chat.
C35_ChatIsolation ==
    [][ /\ \A c \in Chats :
             (CycleFetch /\ cur = c) =>
                /\ \A r \in Rows : r[1] # c => CopiesIn(r, seen') = CopiesIn(r, seen)
                /\ LastOf(hist'[<<c, Head(work)>>]) = "ok" =>
                     LET g == GetNewItems(ClientFor(Head(work)), items',
                                          OnlyChat(seen, c), c, Head(work))
                     IN  /\ newItems' = g.new
                         /\ OnlyChat(seen', c) = g.seen
        /\ lastRemove' # lastRemove =>
             \A r \in Rows : r[1] # lastRemove'.chat =>
                 CopiesIn(r, seen') = CopiesIn(r, seen) ]_vars

\* C35 witness: chat 2 has been handed item 1 as new although chat 1 holds a
\* row for the same id under the same url
C35_Witness ==
    /\ cur = 2 /\ curUrl = "v1" /\ newItems = <<1>>
    /\ BagIn(<<1, "v1", "1">>, seen)
    /\ BagIn(<<2, "v1", "1">>, seen)

\* C36 (as claimed): a search_command on a supported url ends with a reply:
\* an item message, the "no items found" message, or the error message of
\* handle_error; a failed fetch always ends with the error message.
C36_SearchAlwaysReplies ==
    lastSearch.chat # 0 =>
        /\ \/ lastSearch.replies # <<>>
           \/ (lastSearch.kind = "ok" /\ lastSearch.items = <<>>)
           \/ lastSearch.note
        /\ lastSearch.kind # "ok" => lastSearch.note

\* C37: a failed fetch of a url the LeBonCoin client handles is never
\* re-queued and changes neither the proxy position, the session's proxy nor
\* the user agent: the cycle goes to the error message of handle_error.
C37_LbcNeverRetried ==
    [][ (/\ CycleFetch
         /\ ClientFor(Head(work)) = "leboncoin"
         /\ LastOf(hist'[<<cur, Head(work)>>]) # "ok") =>
            /\ cpc' = "await_err"
            /\ work' = Tail(work)
            /\ proxyPos' = proxyPos
            /\ sessionProxy' = sessionProxy
            /\ identity' = identity ]_vars

\* C37 witness: the fetch of l1 has failed with a 403 while the Vinted counter
\* would still allow a retry and a proxy pool is configured
C37_Witness ==
    /\ cpc = "await_err" /\ curUrl = "l1"
    /\ lastTry["leboncoin"].kind = "403"
    /\ numProxies = 2 /\ failed["vinted"] = 0
    /\ proxyPos = 0 /\ sessionProxy = 0

\* C38: when startup_check has run without store error, no chat is paused,
\* whatever the flags in the database were, and the scheduled job that
\* follows skips no chat: it takes up the search urls of every chat.
C38_StartupResumesAll ==
    [][ /\ (cpc = "stopped" /\ cpc' = "idle" /\ probe'.readOk /\ probe'.bad = {}) =>
              \A c \in Chats : ~paused'[c]
        /\ (/\ cpc = "run" /\ cur' # cur /\ cur' \in Chats
            /\ probe.fn = "startup_check" /\ probe.readOk /\ probe.bad = {}) =>
              work' = queries[cur'] ]_vars

\* C38 witness: chat 1 was paused when the process started, startup_check ran
\* without store error, and the scheduled job has fetched for chat 1
C38_Witness ==
    /\ probe.fn = "startup_check" /\ probe.readOk /\ probe.bad = {}
    /\ probe.before[1]
    /\ ~paused[1]
    /\ cur = 1 /\ nFetch > 0

====
